---- MODULE Spec2Model ----
(***************************************************************************)
(* Smart Dumb Appliance: the power-threshold cycle detector and usage     *)
(* accumulator (SmartDumbApplianceCoordinator, coordinator.py).            *)
(*                                                                         *)
(* Units.  Power is in whole watts, the clock in whole seconds, a price    *)
(* rate in whole currency units per kWh.  Energies are kept as exact       *)
(* numerators over KWhScale (one unit is 1/KWhScale kWh) and costs as      *)
(* numerators over KWhScale currency units, so the arithmetic of the       *)
(* trapezoid (a division by 3600 and one by 2*1000) is exact.  A duration  *)
(* is a number of seconds.  An Optional value is <<>> (None) or <<v>>.     *)
(***************************************************************************)
EXTENDS Integers, Sequences, FiniteSets, TLC

\* ---------------------------------------------------------------- bounds
\* the clock stops at MaxTime seconds, advances by at most MaxStep seconds
\* between two evaluations, and no evaluation runs once MaxUseCount cycles
\* were counted
MaxTime == 1
MaxStep == 1
MaxUseCount == 2
\* at most MaxPending refresh tasks are created and not yet run, at most
\* MaxAttempts refresh calls are made by one async_setup, at most
\* MaxListeners callbacks are registered
MaxPending == 3
MaxAttempts == 4
MaxListeners == 2

\* ------------------------------------------------------------ input sets
PowerValues == {0 - 200, 0, 100, 120}
RateValues == {2}
\* <<start_watts, stop_watts>>: the default pair (const.py:26-27), an equal
\* pair, and a pair in the wrong order, which the constructor accepts
Thresholds == {<<100, 50>>, <<100, 100>>, <<50, 100>>}

SecondsPerHour == 3600
WattsPerKilowatt == 1000
KWhScale == SecondsPerHour * 2 * WattsPerKilowatt

None == <<>>
Some(v) == <<v>>

\* A host state object as returned by hass.states.get(entity_id): the
\* entity is missing, or its state text is not a number, or it is a number.
Missing == [kind |-> "missing", val |-> 0]
Text == [kind |-> "text", val |-> 0]
Num(v) == [kind |-> "num", val |-> v]
PowerStates == {Missing, Text} \cup {Num(v) : v \in PowerValues}
CostStates == {Missing, Text} \cup {Num(v) : v \in RateValues}

VARIABLES
    \* configuration (config_entry.data)
    start_watts, stop_watts, cost_sensor, service_reminder, service_reminder_count,
    \* coordinator fields
    start_time, end_time, use_count,
    cycle_energy, previous_cycle_energy, total_energy,
    cycle_cost, previous_cycle_cost, total_cost,
    was_on, last_power, last_power_time,
    last_cycle_end_time, last_cycle_duration, total_duration,
    data, initialized, unsubscribe, listeners, last_update_success,
    \* async_setup: where the coroutine stands, its local retry_count, and
    \* the number of refresh calls it has made
    setup_pc, retry_count, attempts,
    \* refresh tasks created by power-sensor changes and not yet run, the
    \* evaluations started and not yet finished, and whether the update
    \* coordinator was told to shut down
    pending, evaluating, shutdown_requested,
    \* the host clock (dt_util.utcnow)
    now,
    \* observation of the last operation: its kind, its inputs and the
    \* locals of the evaluation; and the last parseable reading delivered
    last, reading,
    \* a second coordinator with the same thresholds and a price source
    \* that is always readable, fed the same readings; and the state of
    \* the price entity sampled by the last evaluation of a reading
    twin, price,
    \* whether ticks without a reading came after the last parseable reading
    \* (open), and whether the last parseable reading was the first after
    \* such ticks (closed)
    gap,
    \* the energy and the cost of the cycles that started before the last
    \* one, each as its cycle accumulator held it when the next cycle began
    closed,
    \* for each callback, the handles async_add_listener returned for it
    \* that were not invoked yet
    handles,
    \* the host: its stored config entries (entry_id -> entry.data), the
    \* coordinators of hass.data[DOMAIN] (None without the DOMAIN key), and
    \* what the last entry or flow operation returned
    config_entries, hass_data, result

config == <<start_watts, stop_watts, cost_sensor, service_reminder, service_reminder_count>>
cycle == <<start_time, end_time, use_count, was_on,
           last_cycle_end_time, last_cycle_duration, total_duration>>
energy == <<cycle_energy, previous_cycle_energy, total_energy>>
cost == <<cycle_cost, previous_cycle_cost, total_cost>>
baseline == <<last_power, last_power_time>>
hooks == <<initialized, unsubscribe, listeners>>
setup == <<setup_pc, retry_count, attempts>>
tasks == <<pending, evaluating>>
shadow == <<twin, price, gap, closed, handles>>
host == <<config_entries, hass_data, result>>
vars == <<config, cycle, energy, cost, baseline, hooks, data, last_update_success,
          setup, tasks, shutdown_requested, now, last, reading, shadow, host>>

\* ------------------------------------------------------- pure functions

\* IsOn with the start comparison made non-strict
IsOnNonStrict(current_power, was, start, stop) ==
    current_power >= start \/ (was /\ current_power > stop)

\* coordinator.py:241
IsOn(current_power, was, start, stop) ==
    current_power > start \/ (was /\ current_power > stop)

\* IntervalEnergy by the rectangle rule: the current reading alone
IntervalEnergyRectangle(lp, lpt, current_power, current_time) ==
    IF lpt = None
    THEN 0
    ELSE LET time_diff == (current_time - lpt[1]) * (KWhScale \div SecondsPerHour)
         IN  ((current_power + current_power) * time_diff) \div (2 * WattsPerKilowatt)

\* IntervalEnergy without the first-call return of lines 140-143: a missing
\* baseline is integrated from time 0
IntervalEnergyNoFirstCall(lp, lpt, current_power, current_time) ==
    LET time_diff == (current_time - (IF lpt = None THEN 0 ELSE lpt[1]))
                         * (KWhScale \div SecondsPerHour)
    IN  ((lp + current_power) * time_diff) \div (2 * WattsPerKilowatt)

\* coordinator.py:129-156, the value returned; lpt is Optional
IntervalEnergy(lp, lpt, current_power, current_time) ==
    IF lpt = None
    THEN 0
    ELSE LET time_diff == (current_time - lpt[1]) * (KWhScale \div SecondsPerHour)
         IN  ((lp + current_power) * time_diff) \div (2 * WattsPerKilowatt)

\* CostRate reading the price entity whether or not a cost sensor is set
CostRateUnconfigured(configured, cost_state) ==
    IF cost_state.kind = "missing" THEN None
    ELSE IF cost_state.kind = "text" THEN None
    ELSE Some(cost_state.val)

\* CostRate taking a missing price entity for a rate of 1
CostRateMissingAsOne(configured, cost_state) ==
    IF ~configured THEN None
    ELSE IF cost_state.kind = "missing" THEN Some(1)
    ELSE IF cost_state.kind = "text" THEN None
    ELSE Some(cost_state.val)

\* coordinator.py:158-172; configured is whether a cost sensor is set
CostRate(configured, cost_state) ==
    IF ~configured THEN None
    ELSE IF cost_state.kind = "missing" THEN None
    ELSE IF cost_state.kind = "text" THEN None
    ELSE Some(cost_state.val)

\* coordinator.py:229
IntervalCost(interval_energy, cost_rate) ==
    IF cost_rate # None THEN interval_energy * cost_rate[1] ELSE 0

\* coordinator.py:244; st is Optional
CurrentDuration(current_time, st) ==
    IF st # None THEN current_time - st[1] ELSE 0

\* Max without the comparison: its second argument
MaxUnclamped(a, b) == b

Max(a, b) == IF a >= b THEN a ELSE b

\* coordinator.py:185-209, the Snapshot built when the power entity is
\* missing and nothing was published yet
EmptyData(t) ==
    [last_update |-> t, power_state |-> 0, is_running |-> FALSE,
     start_time |-> None, end_time |-> None, use_count |-> use_count,
     cycle_energy |-> 0, previous_cycle_energy |-> previous_cycle_energy,
     total_energy |-> total_energy,
     cycle_cost |-> 0, previous_cycle_cost |-> previous_cycle_cost,
     total_cost |-> total_cost,
     last_power |-> 0, last_power_time |-> None,
     cycle_duration |-> None, last_cycle_duration |-> last_cycle_duration,
     total_duration |-> total_duration,
     service_status |-> "disabled",
     service_reminder_enabled |-> service_reminder,
     service_reminder_count |-> service_reminder_count,
     remaining_cycles |-> Max(0, service_reminder_count - use_count)]

\* What is observed of an operation: op is "init", "valid" (a parseable
\* reading was evaluated), "missing" or "text" (no reading), or "shutdown";
\* was is was_on before it; first is whether no parseable reading had been
\* evaluated before it; interval_energy and interval_cost are the locals
\* of coordinator.py:223 and 229; raised is the exception raised inside the
\* evaluation (None when there was none) and escaped the one that left it;
\* for the operations on listeners op is "add_listener", "remove_listener"
\* or "remove_handle", callback is the callback they were given and raised
\* the exception they raised
NoOp == [op |-> "init", was |-> FALSE, first |-> FALSE,
         interval_energy |-> 0, interval_cost |-> 0,
         raised |-> None, escaped |-> None, callback |-> None]

\* The exceptions an evaluation can raise inside its try block: those of
\* float() (ValueError, TypeError), the UpdateFailed of line 217, and any
\* other subclass of Exception, for which KeyError stands
ExceptionClasses == {"ValueError", "TypeError", "UpdateFailed", "KeyError"}

\* Escapes with the handler of lines 336-338 alone
EscapesValueErrors(exc) ==
    IF exc \in {"ValueError", "TypeError"} THEN "UpdateFailed"
    ELSE exc

\* coordinator.py:336-341, the exception that leaves _async_update_data
\* when exc is raised inside its try block
Escapes(exc) ==
    IF exc \in {"ValueError", "TypeError"} THEN "UpdateFailed"
    ELSE IF exc \in ExceptionClasses THEN "UpdateFailed"
    ELSE exc

\* coordinator.py:105-124, the fields of a coordinator as constructed
FreshTwin ==
    [start_time |-> None, end_time |-> None, use_count |-> 0, was_on |-> FALSE,
     last_cycle_end_time |-> None, last_cycle_duration |-> None,
     total_duration |-> 0,
     cycle_energy |-> 0, previous_cycle_energy |-> 0, total_energy |-> 0,
     cycle_cost |-> 0, previous_cycle_cost |-> 0, total_cost |-> 0,
     last_power |-> 0, last_power_time |-> None]

\* coordinator.py:219-290, the fields after the evaluation of a parseable
\* reading by a coordinator whose fields are s; configured is whether it
\* has a cost sensor
Evaluate(s, configured, current_power, cost_state, current_time) ==
    LET interval_energy == IntervalEnergy(s.last_power, s.last_power_time,
                                          current_power, current_time)
        cost_rate == CostRate(configured, cost_state)
        interval_cost == IntervalCost(interval_energy, cost_rate)
        is_on == IsOn(current_power, s.was_on, start_watts, stop_watts)
        was == s.was_on
        turned_on == is_on /\ ~was
        turned_off == ~is_on /\ was
        tracks == is_on \/ was
        current_duration == IF s.start_time # None
                            THEN current_time - s.start_time[1] ELSE 0
        stores == turned_off /\ s.last_cycle_end_time # Some(current_time)
        base_energy == IF turned_on THEN 0 ELSE s.cycle_energy
        base_cost == IF turned_on THEN 0 ELSE s.cycle_cost
    IN  [start_time |-> IF turned_on THEN Some(current_time) ELSE s.start_time,
         end_time |-> IF turned_on THEN None
                      ELSE IF turned_off THEN Some(current_time)
                      ELSE s.end_time,
         use_count |-> IF turned_off THEN s.use_count + 1 ELSE s.use_count,
         was_on |-> is_on,
         last_cycle_end_time |-> IF stores THEN Some(current_time)
                                 ELSE s.last_cycle_end_time,
         last_cycle_duration |-> IF stores THEN Some(current_duration)
                                 ELSE s.last_cycle_duration,
         total_duration |-> IF stores THEN s.total_duration + current_duration
                            ELSE s.total_duration,
         cycle_energy |-> IF tracks THEN base_energy + interval_energy
                          ELSE base_energy,
         previous_cycle_energy |-> IF stores THEN s.cycle_energy
                                   ELSE s.previous_cycle_energy,
         total_energy |-> IF tracks THEN s.total_energy + interval_energy
                          ELSE s.total_energy,
         cycle_cost |-> IF tracks THEN base_cost + interval_cost ELSE base_cost,
         previous_cycle_cost |-> IF stores THEN s.cycle_cost
                                 ELSE s.previous_cycle_cost,
         total_cost |-> IF tracks THEN s.total_cost + interval_cost
                        ELSE s.total_cost,
         last_power |-> current_power,
         last_power_time |-> Some(current_time)]

\* No tick without a reading since construction or shutdown
NoGap == [open |-> FALSE, closed |-> FALSE]

\* The callbacks of two entities
ListenerCallbacks == {"a", "b"}

\* No handle was returned
NoHandles == [c \in ListenerCallbacks |-> 0]

\* No cycle has started since construction or shutdown
NoneClosed == [energy |-> 0, cost |-> 0]

\* The empty store of config entries: no entry_id holds data
NoEntries == <<>>

\* What is observed of an entry or flow operation: op is "init",
\* "setup_entry", "unload_entry", "store", "step_user" or
\* "step_reconfigure"; returned is the value returned (TRUE or FALSE for
\* the entry operations, the type of the FlowResult for the steps, "raised"
\* when an exception left the operation); errors are the form fields
\* carrying an error; created is whether a coordinator was constructed;
\* input is the user_input submitted to a step (None without one)
NoResult == [op |-> "init", entry_id |-> 0, returned |-> "none",
             errors |-> {}, created |-> FALSE, input |-> None]

\* ------------------------------------------------------------------ Init

\* coordinator.py:89-127
Init ==
    /\ \E th \in Thresholds : start_watts = th[1] /\ stop_watts = th[2]
    /\ cost_sensor \in BOOLEAN
    /\ service_reminder = FALSE
    /\ service_reminder_count = 0
    /\ start_time = None
    /\ end_time = None
    /\ use_count = 0
    /\ cycle_energy = 0
    /\ previous_cycle_energy = 0
    /\ total_energy = 0
    /\ cycle_cost = 0
    /\ previous_cycle_cost = 0
    /\ total_cost = 0
    /\ was_on = FALSE
    /\ last_power = 0
    /\ last_power_time = None
    /\ last_cycle_end_time = None
    /\ last_cycle_duration = None
    /\ total_duration = 0
    /\ data = None
    /\ initialized = FALSE
    /\ unsubscribe = FALSE
    /\ listeners = <<>>
    /\ last_update_success = TRUE
    /\ setup_pc = "none"
    /\ retry_count = 0
    /\ attempts = 0
    /\ pending = 0
    /\ evaluating = 0
    /\ shutdown_requested = FALSE
    /\ now = 0
    /\ last = NoOp
    /\ reading = None
    /\ twin = FreshTwin
    /\ price = None
    /\ gap = NoGap
    /\ closed = NoneClosed
    /\ handles = NoHandles
    /\ config_entries = NoEntries
    /\ hass_data = None
    /\ result = NoResult

\* --------------------------------------------- the cycle lifecycle tracker

\* coordinator.py:247 and 258, the two edges of the state machine
TurnedOn(is_on, was) == is_on /\ ~was
TurnedOff(is_on, was) == ~is_on /\ was

\* coordinator.py:248 (start_time is assigned on the Idle->Active edge only)
NextStartTime(st, is_on, was, current_time) ==
    IF TurnedOn(is_on, was) THEN Some(current_time) ELSE st

\* NextEndTime without line 249: a new cycle keeps the end time of the last
NextEndTimeKept(et, is_on, was, current_time) ==
    IF ~is_on /\ was THEN Some(current_time) ELSE et

\* coordinator.py:249 and 259
NextEndTime(et, is_on, was, current_time) ==
    IF TurnedOn(is_on, was) THEN None
    ELSE IF TurnedOff(is_on, was) THEN Some(current_time)
    ELSE et

\* NextUseCount counting a cycle when it starts instead of when it ends
NextUseCountOnStart(count, is_on, was) ==
    IF is_on /\ ~was THEN count + 1 ELSE count

\* coordinator.py:260
NextUseCount(count, is_on, was) ==
    IF TurnedOff(is_on, was) THEN count + 1 ELSE count

\* StoresPrevious on every tick that finds the appliance not running
StoresPreviousWhenIdle(is_on, was, lcet, current_time) ==
    ~is_on /\ lcet # Some(current_time)

\* coordinator.py:263, evaluated after end_time was set to current_time:
\* the previous-cycle values are stored only if this end time differs
\* from the end time of the last stored cycle
StoresPrevious(is_on, was, lcet, current_time) ==
    TurnedOff(is_on, was) /\ lcet # Some(current_time)

\* CycleBase without the reset of lines 250-251
CycleBaseNoReset(acc, is_on, was) == acc

\* coordinator.py:250-251, the per-cycle accumulator before this tick's
\* interval is added
CycleBase(acc, is_on, was) ==
    IF TurnedOn(is_on, was) THEN 0 ELSE acc

\* coordinator.py:284, whether this tick's interval is accumulated
Tracks(is_on, was) == is_on \/ was

\* coordinator.py:285-288
Accumulate(acc, increment, is_on, was) ==
    IF Tracks(is_on, was) THEN acc + increment ELSE acc

\* coordinator.py:264-265, the value snapshotted is the accumulator as it
\* stands at line 264, before lines 285-288 add this tick's interval
NextPrevious(prev, acc, is_on, was, lcet, current_time) ==
    IF StoresPrevious(is_on, was, lcet, current_time) THEN acc ELSE prev

\* coordinator.py:293-317, built from the fields after they were updated
Snapshot(current_power, current_time, is_on, current_duration) ==
    [last_update |-> current_time, power_state |-> current_power, is_running |-> is_on,
     start_time |-> start_time', end_time |-> end_time', use_count |-> use_count',
     cycle_energy |-> cycle_energy', previous_cycle_energy |-> previous_cycle_energy',
     total_energy |-> total_energy',
     cycle_cost |-> cycle_cost', previous_cycle_cost |-> previous_cycle_cost',
     total_cost |-> total_cost',
     last_power |-> last_power', last_power_time |-> last_power_time',
     cycle_duration |-> IF is_on THEN Some(current_duration) ELSE None,
     last_cycle_duration |-> last_cycle_duration',
     total_duration |-> total_duration',
     service_status |-> IF is_on THEN "ok" ELSE "disabled",
     service_reminder_enabled |-> service_reminder,
     service_reminder_count |-> service_reminder_count,
     remaining_cycles |-> Max(0, service_reminder_count - use_count')]

\* coordinator.py:219-334, the evaluation of a parseable reading
ValidReading(current_power, cost_state, current_time) ==
    LET interval_energy == IntervalEnergy(last_power, last_power_time,
                                          current_power, current_time)
        cost_rate == CostRate(cost_sensor, cost_state)
        interval_cost == IntervalCost(interval_energy, cost_rate)
        is_on == IsOn(current_power, was_on, start_watts, stop_watts)
        current_duration == CurrentDuration(current_time, start_time)
        stores == StoresPrevious(is_on, was_on, last_cycle_end_time, current_time)
    IN  /\ last_power' = current_power
        /\ last_power_time' = Some(current_time)
        /\ start_time' = NextStartTime(start_time, is_on, was_on, current_time)
        /\ end_time' = NextEndTime(end_time, is_on, was_on, current_time)
        /\ use_count' = NextUseCount(use_count, is_on, was_on)
        /\ previous_cycle_energy' = NextPrevious(previous_cycle_energy, cycle_energy,
                                        is_on, was_on, last_cycle_end_time, current_time)
        /\ previous_cycle_cost' = NextPrevious(previous_cycle_cost, cycle_cost,
                                        is_on, was_on, last_cycle_end_time, current_time)
        /\ last_cycle_duration' = IF stores THEN Some(current_duration)
                                  ELSE last_cycle_duration
        /\ total_duration' = IF stores THEN total_duration + current_duration
                             ELSE total_duration
        /\ last_cycle_end_time' = IF stores THEN Some(current_time)
                                  ELSE last_cycle_end_time
        /\ cycle_energy' = Accumulate(CycleBase(cycle_energy, is_on, was_on),
                                      interval_energy, is_on, was_on)
        /\ total_energy' = Accumulate(total_energy, interval_energy, is_on, was_on)
        /\ cycle_cost' = Accumulate(CycleBase(cycle_cost, is_on, was_on),
                                    interval_cost, is_on, was_on)
        /\ total_cost' = Accumulate(total_cost, interval_cost, is_on, was_on)
        /\ was_on' = is_on
        /\ data' = Some(Snapshot(current_power, current_time, is_on, current_duration))
        /\ last_update_success' = TRUE
        /\ last' = [op |-> "valid", was |-> was_on, first |-> (reading = None),
                    interval_energy |-> interval_energy,
                    interval_cost |-> interval_cost,
                    raised |-> None, escaped |-> None, callback |-> None]
        /\ reading' = Some(<<current_power, current_time>>)

\* NoReading taking a power source that cannot be read for a reading of
\* 0 W: the integration baseline is moved to 0 W at the time of the tick
NoReadingAsZero(power_state, current_time) ==
    /\ data' = IF data # None THEN data
               ELSE IF power_state.kind = "missing" THEN Some(EmptyData(current_time))
               ELSE data
    /\ last_update_success' = (data # None \/ power_state.kind = "missing")
    /\ last' = [NoOp EXCEPT !.op = power_state.kind, !.was = was_on,
                            !.raised = IF data = None /\ power_state.kind = "text"
                                       THEN Some("UpdateFailed") ELSE None,
                            !.escaped = IF data = None /\ power_state.kind = "text"
                                        THEN Some(Escapes("UpdateFailed")) ELSE None]
    /\ last_power' = 0
    /\ last_power_time' = Some(current_time)
    /\ UNCHANGED <<cycle, energy, cost, reading>>

\* coordinator.py:178-217, the power entity is missing (kind "missing") or
\* its state is not a number (kind "text"): the stored Snapshot is returned
\* when there is one; otherwise a missing entity publishes the empty
\* Snapshot and an unparseable state raises UpdateFailed
NoReading(power_state, current_time) ==
    /\ data' = IF data # None THEN data
               ELSE IF power_state.kind = "missing" THEN Some(EmptyData(current_time))
               ELSE data
    /\ last_update_success' = (data # None \/ power_state.kind = "missing")
    /\ last' = [NoOp EXCEPT !.op = power_state.kind, !.was = was_on,
                            !.raised = IF data = None /\ power_state.kind = "text"
                                       THEN Some("UpdateFailed") ELSE None,
                            !.escaped = IF data = None /\ power_state.kind = "text"
                                        THEN Some(Escapes("UpdateFailed")) ELSE None]
    /\ UNCHANGED <<cycle, energy, cost, baseline, reading>>

\* coordinator.py:174-341, one evaluation, whose result the update
\* coordinator stores in data (the registered update_method, lines 91-97)
AsyncUpdateData(power_state, cost_state, current_time) ==
    IF power_state.kind = "num"
    THEN ValidReading(power_state.val, cost_state, current_time)
    ELSE NoReading(power_state, current_time)

Min(a, b) == IF a <= b THEN a ELSE b

\* An evaluation that awaits in its body, so that other tasks run while
\* it is in progress
EvaluationAwaits == TRUE

\* coordinator.py:174-341: the body of _async_update_data contains no
\* await, so the event loop runs nothing else between its first and its
\* last statement
EvaluationSuspends == FALSE

\* The evaluations that have started and not finished: those of refresh
\* tasks and the one of async_setup's refresh call
InProgress == evaluating + (IF setup_pc = "fetching" THEN 1 ELSE 0)

\* Whether the event loop can start a callback or resume another task
LoopFree == InProgress = 0 \/ EvaluationSuspends

\* One refresh: the polling timer (update_interval, line 96) or the task
\* created by a power-sensor change (line 446), taken as one step.  The
\* host delivers the power state, the cost state and the time of the
\* evaluation, under a clock that does not go backwards.  After
\* super().async_shutdown() (line 524) the update coordinator runs no
\* refresh.
AsyncRefresh ==
    \E power_state \in PowerStates, cost_state \in CostStates,
       current_time \in now .. Min(now + MaxStep, MaxTime) :
        /\ use_count < MaxUseCount
        /\ ~shutdown_requested
        /\ LoopFree
        /\ now' = current_time
        /\ AsyncUpdateData(power_state, cost_state, current_time)
        /\ UNCHANGED <<config, shadow, host, hooks, setup, tasks, shutdown_requested>>

\* AsyncShutdown without line 521: the coordinator stays initialised
AsyncShutdownStaysInitialized ==
    /\ LoopFree
    /\ shutdown_requested' = TRUE
    /\ listeners' = <<>>
    /\ unsubscribe' = FALSE
    /\ start_time' = None
    /\ end_time' = None
    /\ use_count' = 0
    /\ cycle_energy' = 0
    /\ previous_cycle_energy' = 0
    /\ total_energy' = 0
    /\ cycle_cost' = 0
    /\ previous_cycle_cost' = 0
    /\ total_cost' = 0
    /\ was_on' = FALSE
    /\ last_power' = 0
    /\ last_power_time' = None
    /\ last_cycle_end_time' = None
    /\ last_cycle_duration' = None
    /\ total_duration' = 0
    /\ data' = None
    /\ UNCHANGED initialized
    /\ last' = [NoOp EXCEPT !.op = "shutdown", !.was = was_on]
    /\ reading' = None
    /\ twin' = FreshTwin
    /\ price' = None
    /\ gap' = NoGap
    /\ closed' = NoneClosed
    /\ UNCHANGED <<config, handles, host, last_update_success, setup, tasks, now>>

\* coordinator.py:488-524 (the definition in force; lines 393-429 are an
\* identical earlier definition that it replaces)
AsyncShutdown ==
    /\ LoopFree
    /\ shutdown_requested' = TRUE
    /\ listeners' = <<>>
    /\ unsubscribe' = FALSE
    /\ start_time' = None
    /\ end_time' = None
    /\ use_count' = 0
    /\ cycle_energy' = 0
    /\ previous_cycle_energy' = 0
    /\ total_energy' = 0
    /\ cycle_cost' = 0
    /\ previous_cycle_cost' = 0
    /\ total_cost' = 0
    /\ was_on' = FALSE
    /\ last_power' = 0
    /\ last_power_time' = None
    /\ last_cycle_end_time' = None
    /\ last_cycle_duration' = None
    /\ total_duration' = 0
    /\ data' = None
    /\ initialized' = FALSE
    /\ last' = [NoOp EXCEPT !.op = "shutdown", !.was = was_on]
    /\ reading' = None
    /\ twin' = FreshTwin
    /\ price' = None
    /\ gap' = NoGap
    /\ closed' = NoneClosed
    /\ UNCHANGED <<config, handles, host, last_update_success, setup, tasks, now>>

Next == AsyncRefresh \/ AsyncShutdown

Spec == Init /\ [][Next]_vars

\* ------------------------------------------- set-up, triggers and teardown

\* coordinator.py:358
MaxRetries == 3

Callbacks == {"a"}

\* What is observed of an operation that is neither an evaluation nor a
\* shutdown
Lifecycle == [NoOp EXCEPT !.op = "lifecycle"]

\* The power states delivered to the evaluations of this part: the entity
\* is missing, its state is not a number, or it reads 120 W
LifecyclePowerStates == {Missing, Text, Num(120)}

\* The coordinator fields an evaluation or a shutdown assigns
state == <<cycle, energy, cost, baseline, data, last_update_success, reading>>

\* coordinator.py:343-347 and 384-391, async_setup up to its first await:
\* a coordinator that is not initialised sleeps for the start-up delay; an
\* initialised one subscribes if it holds no subscription, and returns.
\* It is called on a coordinator that was not shut down (__init__.py:67-74
\* calls it on the coordinator it has just created), and not while an
\* earlier call is suspended
AsyncSetup ==
    /\ LoopFree
    /\ ~shutdown_requested
    /\ setup_pc \in {"none", "done"}
    /\ IF ~initialized
       THEN /\ setup_pc' = "startup_delay"
            /\ UNCHANGED unsubscribe
       ELSE /\ setup_pc' = "done"
            /\ unsubscribe' = TRUE
    /\ retry_count' = 0
    /\ attempts' = 0
    /\ last' = Lifecycle
    /\ UNCHANGED <<config, shadow, host, state, initialized, listeners, tasks,
                   shutdown_requested, now>>

\* coordinator.py:349-359, after the start-up delay: subscribe to the
\* power sensor and enter the retry loop
SetupSubscribe ==
    /\ LoopFree
    /\ setup_pc = "startup_delay"
    /\ unsubscribe' = TRUE
    /\ retry_count' = 0
    /\ setup_pc' = "fetch"
    /\ last' = Lifecycle
    /\ UNCHANGED <<config, shadow, host, state, initialized, listeners, attempts, tasks,
                   shutdown_requested, now>>

\* coordinator.py:361-363, the loop test passed: await
\* self.async_request_refresh()
SetupFetch ==
    /\ LoopFree
    /\ setup_pc = "fetch"
    /\ retry_count < MaxRetries
    /\ attempts < MaxAttempts
    /\ setup_pc' = "fetching"
    /\ attempts' = attempts + 1
    /\ last' = Lifecycle
    /\ UNCHANGED <<config, shadow, host, state, hooks, retry_count, tasks, shutdown_requested, now>>

\* coordinator.py:368-377, the refresh call raised: count the failure and
\* sleep for the retry delay unless it was the last attempt
SetupFetchRaised ==
    /\ setup_pc = "fetching"
    /\ retry_count' = retry_count + 1
    /\ setup_pc' = IF retry_count + 1 < MaxRetries THEN "retry_delay" ELSE "fetch"
    /\ last' = Lifecycle
    /\ UNCHANGED <<config, shadow, host, state, hooks, attempts, tasks, shutdown_requested, now>>

\* coordinator.py:363-367, the refresh call returned: after a shutdown the
\* update coordinator runs no evaluation; otherwise the evaluation ran.
\* With a Snapshot stored the coordinator is initialised and async_setup
\* returns; without one the loop goes round, retry_count unchanged
SetupFetchReturned ==
    /\ setup_pc = "fetching"
    /\ IF shutdown_requested
       THEN /\ last' = Lifecycle
            /\ UNCHANGED <<state, now>>
       ELSE \E power_state \in LifecyclePowerStates, cost_state \in {Missing},
               current_time \in now .. Min(now + MaxStep, MaxTime) :
                /\ now' = current_time
                /\ AsyncUpdateData(power_state, cost_state, current_time)
    /\ initialized' = (initialized \/ data' # None)
    /\ setup_pc' = IF data' # None THEN "done" ELSE "fetch"
    /\ UNCHANGED <<config, shadow, host, unsubscribe, listeners, retry_count, attempts,
                   tasks, shutdown_requested>>

\* coordinator.py:377, the retry delay is over
SetupRetry ==
    /\ LoopFree
    /\ setup_pc = "retry_delay"
    /\ setup_pc' = "fetch"
    /\ last' = Lifecycle
    /\ UNCHANGED <<config, shadow, host, state, hooks, retry_count, attempts, tasks,
                   shutdown_requested, now>>

\* coordinator.py:361 and 379-383, the loop test failed: log and return
SetupGiveUp ==
    /\ LoopFree
    /\ setup_pc = "fetch"
    /\ retry_count >= MaxRetries
    /\ setup_pc' = "done"
    /\ last' = Lifecycle
    /\ UNCHANGED <<config, shadow, host, state, hooks, retry_count, attempts, tasks,
                   shutdown_requested, now>>

\* coordinator.py:431-446, a state-change event of the power sensor is
\* delivered to the subscription: without a new state nothing happens,
\* otherwise one task running async_refresh is created
AsyncPowerSensorChanged ==
    \E new_state_is_none \in BOOLEAN :
        /\ LoopFree
        /\ unsubscribe
        /\ pending < MaxPending
        /\ pending' = IF new_state_is_none THEN pending ELSE pending + 1
        /\ last' = Lifecycle
        /\ UNCHANGED <<config, shadow, host, state, hooks, setup, evaluating,
                       shutdown_requested, now>>

\* coordinator.py:446, a created task starts to run async_refresh: after a
\* shutdown it returns at once, otherwise its evaluation begins
RunRefreshTask ==
    /\ LoopFree
    /\ pending > 0
    /\ pending' = pending - 1
    /\ evaluating' = IF shutdown_requested THEN evaluating ELSE evaluating + 1
    /\ last' = Lifecycle
    /\ UNCHANGED <<config, shadow, host, state, hooks, setup, shutdown_requested, now>>

\* coordinator.py:96, the polling timer (update_interval) fires and the
\* evaluation of its refresh begins; the timer is stopped by a shutdown
TimerRefresh ==
    /\ LoopFree
    /\ ~shutdown_requested
    /\ evaluating' = evaluating + 1
    /\ last' = Lifecycle
    /\ UNCHANGED <<config, shadow, host, state, hooks, setup, pending, shutdown_requested, now>>

\* coordinator.py:174-341, the evaluation of a refresh runs to its end and
\* its result is stored
FinishRefresh ==
    \E power_state \in LifecyclePowerStates, cost_state \in {Missing},
       current_time \in now .. Min(now + MaxStep, MaxTime) :
        /\ evaluating > 0
        /\ evaluating' = evaluating - 1
        /\ now' = current_time
        /\ AsyncUpdateData(power_state, cost_state, current_time)
        /\ UNCHANGED <<config, shadow, host, hooks, setup, pending, shutdown_requested>>

\* coordinator.py:472-475
AsyncAddListener ==
    \E update_callback \in Callbacks :
        /\ LoopFree
        /\ Len(listeners) < MaxListeners
        /\ listeners' = Append(listeners, update_callback)
        /\ last' = Lifecycle
        /\ UNCHANGED <<config, shadow, host, state, initialized, unsubscribe, setup, tasks,
                       shutdown_requested, now>>

\* The default configuration: thresholds 100 W and 50 W, no cost sensor
InitLifecycle ==
    /\ Init
    /\ start_watts = 100
    /\ stop_watts = 50
    /\ ~cost_sensor

NextLifecycle ==
    \/ AsyncSetup
    \/ SetupSubscribe
    \/ SetupFetch
    \/ SetupFetchRaised
    \/ SetupFetchReturned
    \/ SetupRetry
    \/ SetupGiveUp
    \/ AsyncPowerSensorChanged
    \/ RunRefreshTask
    \/ TimerRefresh
    \/ FinishRefresh
    \/ AsyncAddListener
    \/ AsyncShutdown

SpecLifecycle == InitLifecycle /\ [][NextLifecycle]_vars

\* ------------------------------------------- readings not above start_watts

\* One refresh whose reading, when there is one, is not above start_watts
AsyncRefreshBelowStart ==
    /\ AsyncRefresh
    /\ last'.op = "valid" => last_power' <= start_watts

NextBelowStart == AsyncRefreshBelowStart \/ AsyncShutdown

SpecBelowStart == Init /\ [][NextBelowStart]_vars

\* --------------------------------------------- with and without a price rate

\* The default thresholds (const.py:26-27), with or without a cost sensor
InitDefault ==
    /\ Init
    /\ start_watts = 100
    /\ stop_watts = 50

\* The power states delivered to the evaluations of this part: the entity
\* is missing, or reads 0 W or 120 W
PairPowerStates == {Missing, Num(0), Num(120)}

\* One refresh of the coordinator and of its twin, which evaluate the same
\* reading at the same time; the twin's price entity reads a number.
\* Without a cost sensor the price entity is not read
\* (coordinator.py:160-161).  The clock of this part stops one second later.
AsyncRefreshPair ==
    \E power_state \in PairPowerStates, cost_state \in CostStates,
       rate \in RateValues,
       current_time \in now .. Min(now + MaxStep, MaxTime + 1) :
        /\ use_count < MaxUseCount
        /\ ~shutdown_requested
        /\ LoopFree
        /\ now' = current_time
        /\ AsyncUpdateData(power_state, cost_state, current_time)
        /\ twin' = IF power_state.kind = "num"
                   THEN Evaluate(twin, TRUE, power_state.val, Num(rate), current_time)
                   ELSE twin
        /\ price' = IF power_state.kind = "num"
                    THEN (IF cost_sensor THEN Some(cost_state) ELSE None)
                    ELSE price
        /\ UNCHANGED <<config, gap, closed, handles, host, hooks, setup, tasks, shutdown_requested>>

NextPair == AsyncRefreshPair \/ AsyncShutdown

SpecPair == InitDefault /\ [][NextPair]_vars

\* ------------------------------------------ config entries and config flow

\* The coordinator fields, which the entry and flow operations of this part
\* leave alone
coordinator == <<config, cycle, energy, cost, baseline, hooks, data,
                 last_update_success, setup, tasks, shutdown_requested, now,
                 last, reading, shadow>>

\* The entry ids of the host
EntryIds == {1, 2}

\* entry.data, or the user_input of a flow step: whether a power sensor is
\* named, and the two thresholds (the form's schema requires both)
EntryData ==
    {[power_sensor |-> ps, start_watts |-> th[1], stop_watts |-> th[2]] :
        ps \in BOOLEAN, th \in Thresholds}
UserInputs == {d \in EntryData : d.power_sensor}

\* validate_watt_thresholds accepting equal thresholds
ValidateWattThresholdsStrict(d) ==
    IF d.stop_watts > d.start_watts THEN {"stop_watts"} ELSE {}

\* config_flow.py:51-67, the keys of the errors returned
ValidateWattThresholds(d) ==
    IF d.stop_watts >= d.start_watts THEN {"stop_watts"} ELSE {}

\* The entry ids that hold a stored entry, and those that hold a coordinator
Stored == DOMAIN config_entries
Registered == IF hass_data = None THEN {} ELSE DOMAIN hass_data[1]

\* The host stores an entry that did not come through the form (loaded
\* from its storage, or written by an earlier version)
HostStoresEntry ==
    \E entry_id \in EntryIds \ Stored, d \in EntryData :
        /\ config_entries' = config_entries @@
               (entry_id :> [data |-> d, state |-> "not_loaded"])
        /\ result' = [NoResult EXCEPT !.op = "store", !.entry_id = entry_id]
        /\ UNCHANGED <<hass_data, coordinator>>

\* coordinator.py:89-127 and 343-359, the coordinator that async_setup_entry
\* constructs from entry.data and sets up: it holds the thresholds of the
\* entry and a subscription to the power sensor
Coordinator(d) ==
    [start_watts |-> d.start_watts, stop_watts |-> d.stop_watts,
     unsubscribe |-> TRUE]

\* SetupEntry without the check of lines 62-64
SetupEntryUnchecked(entry_id, first_refresh_ok) ==
    LET d == config_entries[entry_id].data
    IN  /\ hass_data' = Some((IF hass_data = None THEN <<>> ELSE
                                 [i \in Registered \ {entry_id} |-> hass_data[1][i]])
                             @@ (entry_id :> Coordinator(d)))
        /\ result' = [NoResult EXCEPT
                         !.op = "setup_entry", !.entry_id = entry_id,
                         !.returned = IF first_refresh_ok THEN "True" ELSE "raised",
                         !.created = TRUE]
        /\ config_entries' = [config_entries EXCEPT ![entry_id].state =
                                 IF first_refresh_ok THEN "loaded" ELSE "setup_retry"]

\* __init__.py:57-80: without a power sensor return False; otherwise
\* construct the coordinator, store it under the entry id (creating the
\* DOMAIN key when absent), set it up and make the first refresh, which
\* raises ConfigEntryNotReady when it fails.  The host records the outcome
\* as the state of the entry
SetupEntry(entry_id, first_refresh_ok) ==
    LET d == config_entries[entry_id].data
    IN  IF ~d.power_sensor
        THEN /\ result' = [NoResult EXCEPT
                              !.op = "setup_entry", !.entry_id = entry_id,
                              !.returned = "False"]
             /\ config_entries' = [config_entries EXCEPT
                                      ![entry_id].state = "setup_error"]
             /\ UNCHANGED hass_data
        ELSE /\ hass_data' = Some((IF hass_data = None THEN <<>> ELSE
                                      [i \in Registered \ {entry_id} |-> hass_data[1][i]])
                                  @@ (entry_id :> Coordinator(d)))
             /\ result' = [NoResult EXCEPT
                              !.op = "setup_entry", !.entry_id = entry_id,
                              !.returned = IF first_refresh_ok THEN "True" ELSE "raised",
                              !.created = TRUE]
             /\ config_entries' = [config_entries EXCEPT ![entry_id].state =
                                      IF first_refresh_ok THEN "loaded" ELSE "setup_retry"]

\* The host sets up an entry that is not loaded
AsyncSetupEntry ==
    \E entry_id \in Stored, first_refresh_ok \in BOOLEAN :
        /\ config_entries[entry_id].state \in {"not_loaded", "setup_retry", "setup_error"}
        /\ SetupEntry(entry_id, first_refresh_ok)
        /\ UNCHANGED coordinator

\* __init__.py:82-151, called by the host on a loaded entry: without the
\* DOMAIN key the KeyError of line 88 is caught and False returned; without
\* a coordinator True is returned; otherwise the coordinator is shut down
\* and, when the platforms unloaded, removed from hass.data[DOMAIN], the
\* DOMAIN key going with the last one
AsyncUnloadEntry ==
    \E entry_id \in Stored, unload_ok \in BOOLEAN :
        /\ config_entries[entry_id].state = "loaded"
        /\ IF hass_data = None
           THEN /\ result' = [NoResult EXCEPT
                                 !.op = "unload_entry", !.entry_id = entry_id,
                                 !.returned = "False"]
                /\ UNCHANGED hass_data
           ELSE IF entry_id \notin Registered
           THEN /\ result' = [NoResult EXCEPT
                                 !.op = "unload_entry", !.entry_id = entry_id,
                                 !.returned = "True"]
                /\ UNCHANGED hass_data
           ELSE /\ result' = [NoResult EXCEPT
                                 !.op = "unload_entry", !.entry_id = entry_id,
                                 !.returned = IF unload_ok THEN "True" ELSE "False"]
                /\ hass_data' =
                       IF ~unload_ok
                       THEN Some([hass_data[1] EXCEPT ![entry_id].unsubscribe = FALSE])
                       ELSE IF Registered = {entry_id} THEN None
                       ELSE Some([i \in Registered \ {entry_id} |-> hass_data[1][i]])
        /\ config_entries' = [config_entries EXCEPT ![entry_id].state =
                                 IF result'.returned = "True" THEN "not_loaded"
                                 ELSE "failed_unload"]
        /\ UNCHANGED coordinator

\* config_flow.py:84-234: without user_input the form is shown; with it,
\* the thresholds are validated and the entry is created (under an unused
\* entry id) or the form shown again with the errors
AsyncStepUser ==
    \E user_input \in {None} \cup {Some(d) : d \in UserInputs} :
        LET errors == IF user_input = None THEN {}
                      ELSE ValidateWattThresholds(user_input[1])
            entry_id == CHOOSE i \in EntryIds \ Stored :
                            \A j \in EntryIds \ Stored : i <= j
        IN  /\ EntryIds \ Stored # {}
            /\ IF user_input # None /\ errors = {}
               THEN /\ config_entries' = config_entries @@
                           (entry_id :> [data |-> user_input[1], state |-> "not_loaded"])
                    /\ result' = [NoResult EXCEPT
                                     !.op = "step_user", !.entry_id = entry_id,
                                     !.returned = "create_entry",
                                     !.input = user_input]
               ELSE /\ result' = [NoResult EXCEPT
                                     !.op = "step_user", !.returned = "form",
                                     !.errors = errors, !.input = user_input]
                    /\ UNCHANGED config_entries
            /\ UNCHANGED <<hass_data, coordinator>>

\* config_flow.py:236-400 (and the form of 402-521): the flow aborts when
\* the entry of its context does not exist; without user_input the form is
\* shown; with it, the thresholds are validated and the form shown again
\* with the errors, or the data of the entry replaced by user_input
AsyncStepReconfigure ==
    \E entry_id \in EntryIds,
       user_input \in {None} \cup {Some(d) : d \in UserInputs} :
        LET errors == IF user_input = None THEN {}
                      ELSE ValidateWattThresholds(user_input[1])
        IN  /\ IF entry_id \notin Stored
               THEN /\ result' = [NoResult EXCEPT
                                     !.op = "step_reconfigure", !.entry_id = entry_id,
                                     !.returned = "no_entry", !.input = user_input]
                    /\ UNCHANGED config_entries
               ELSE IF user_input = None \/ errors # {}
               THEN /\ result' = [NoResult EXCEPT
                                     !.op = "step_reconfigure", !.entry_id = entry_id,
                                     !.returned = "form", !.errors = errors,
                                     !.input = user_input]
                    /\ UNCHANGED config_entries
               ELSE /\ result' = [NoResult EXCEPT
                                     !.op = "step_reconfigure", !.entry_id = entry_id,
                                     !.returned = "reconfigure_successful",
                                     !.input = user_input]
                    /\ config_entries' = [config_entries EXCEPT
                                             ![entry_id].data = user_input[1]]
            /\ UNCHANGED <<hass_data, coordinator>>

\* No entry is stored and no coordinator registered
InitEntries ==
    /\ InitDefault
    /\ ~cost_sensor

NextEntries ==
    \/ HostStoresEntry
    \/ AsyncSetupEntry
    \/ AsyncUnloadEntry
    \/ AsyncStepUser
    \/ AsyncStepReconfigure

SpecEntries == InitEntries /\ [][NextEntries]_vars

\* ------------------------------------------------- evaluations that raise

\* coordinator.py:176-341, an evaluation in which exc is raised inside the
\* try block: by the read of the power state (line 178), before any field
\* is assigned, or by the read of the price entity (line 162, called from
\* 226), after line 223 has moved the integration baseline to a parseable
\* reading.  The handlers of 336-341 decide what leaves the evaluation; the
\* update coordinator records a failed update and keeps the Snapshot
AsyncUpdateDataRaises(exc, at, power_state, current_time) ==
    /\ at = "cost" => (power_state.kind = "num" /\ cost_sensor)
    /\ IF at = "cost"
       THEN /\ last_power' = power_state.val
            /\ last_power_time' = Some(current_time)
            /\ reading' = Some(<<power_state.val, current_time>>)
       ELSE UNCHANGED <<baseline, reading>>
    /\ last' = [NoOp EXCEPT !.op = "raised", !.was = was_on,
                            !.raised = Some(exc),
                            !.escaped = Some(Escapes(exc))]
    /\ last_update_success' = FALSE
    /\ UNCHANGED <<cycle, energy, cost, data>>

\* The exceptions raised by the reads of this part: one for each handler
FaultClasses == {"TypeError", "KeyError"}

\* The power states delivered to the evaluations of this part: the state
\* is not a number, or reads 0 W or 120 W
FaultPowerStates == {Text, Num(0), Num(120)}

\* One refresh whose evaluation raises no exception but the UpdateFailed
\* of line 217
AsyncRefreshPlain ==
    \E power_state \in FaultPowerStates, cost_state \in CostStates,
       current_time \in now .. Min(now + MaxStep, MaxTime) :
        /\ use_count < MaxUseCount
        /\ ~shutdown_requested
        /\ LoopFree
        /\ now' = current_time
        /\ AsyncUpdateData(power_state, cost_state, current_time)
        /\ UNCHANGED <<config, shadow, host, hooks, setup, tasks, shutdown_requested>>

\* One refresh whose evaluation raises
AsyncRefreshFault ==
    \E exc \in FaultClasses, at \in {"power", "cost"},
       power_state \in FaultPowerStates,
       current_time \in now .. Min(now + MaxStep, MaxTime) :
        /\ use_count < MaxUseCount
        /\ ~shutdown_requested
        /\ LoopFree
        /\ now' = current_time
        /\ AsyncUpdateDataRaises(exc, at, power_state, current_time)
        /\ UNCHANGED <<config, shadow, host, hooks, setup, tasks, shutdown_requested>>

NextFaults == AsyncRefreshPlain \/ AsyncRefreshFault \/ AsyncShutdown

SpecFaults == InitDefault /\ [][NextFaults]_vars

\* ------------------------------------------- ticks without a reading (gaps)

\* The power states delivered to the evaluations of this part: the entity
\* is missing, its state is not a number, or it reads 0 W or 120 W
GapPowerStates == {Missing, Text, Num(0), Num(120)}

\* One refresh, which records whether it had a reading.  The clock of this
\* part stops one second later, so that time can pass on a tick without a
\* reading and again before the next reading
AsyncRefreshGap ==
    \E power_state \in GapPowerStates, cost_state \in {Num(r) : r \in RateValues},
       current_time \in now .. Min(now + MaxStep, MaxTime + 1) :
        /\ use_count < MaxUseCount
        /\ ~shutdown_requested
        /\ LoopFree
        /\ now' = current_time
        /\ AsyncUpdateData(power_state, cost_state, current_time)
        /\ gap' = IF power_state.kind = "num"
                  THEN [open |-> FALSE, closed |-> gap.open]
                  ELSE [open |-> TRUE, closed |-> FALSE]
        /\ UNCHANGED <<config, twin, price, closed, handles, host, hooks, setup, tasks,
                       shutdown_requested>>

NextGaps == AsyncRefreshGap \/ AsyncShutdown

SpecGaps == InitDefault /\ [][NextGaps]_vars

\* --------------------------------------------- per-cycle and lifetime sums

\* One refresh, which files the cycle accumulators under the closed cycles
\* when the tick starts a new cycle (coordinator.py:247-251, where they are
\* reset).  The clock of this part stops one second later
AsyncRefreshSums ==
    \E power_state \in PairPowerStates, cost_state \in CostStates,
       current_time \in now .. Min(now + MaxStep, MaxTime + 1) :
        /\ use_count < MaxUseCount
        /\ ~shutdown_requested
        /\ LoopFree
        /\ now' = current_time
        /\ AsyncUpdateData(power_state, cost_state, current_time)
        /\ closed' = IF power_state.kind = "num" /\ ~was_on /\ was_on'
                     THEN [energy |-> closed.energy + cycle_energy,
                           cost |-> closed.cost + cycle_cost]
                     ELSE closed
        /\ UNCHANGED <<config, twin, price, gap, handles, host, hooks, setup, tasks,
                       shutdown_requested>>

NextSums == AsyncRefreshSums \/ AsyncShutdown

SpecSums == InitDefault /\ [][NextSums]_vars

\* ------------------------------------------------------- service reminders

\* The values of CONF_SERVICE_REMINDER_COUNT of this part
ReminderCounts == {1, 2}

\* coordinator.py:89-127, a coordinator constructed from an entry with the
\* default thresholds, no cost sensor and a service reminder count
InitReminder ==
    /\ start_watts = 100
    /\ stop_watts = 50
    /\ cost_sensor = FALSE
    /\ service_reminder \in BOOLEAN
    /\ service_reminder_count \in ReminderCounts
    /\ start_time = None
    /\ end_time = None
    /\ use_count = 0
    /\ cycle_energy = 0
    /\ previous_cycle_energy = 0
    /\ total_energy = 0
    /\ cycle_cost = 0
    /\ previous_cycle_cost = 0
    /\ total_cost = 0
    /\ was_on = FALSE
    /\ last_power = 0
    /\ last_power_time = None
    /\ last_cycle_end_time = None
    /\ last_cycle_duration = None
    /\ total_duration = 0
    /\ data = None
    /\ initialized = FALSE
    /\ unsubscribe = FALSE
    /\ listeners = <<>>
    /\ last_update_success = TRUE
    /\ setup_pc = "none"
    /\ retry_count = 0
    /\ attempts = 0
    /\ pending = 0
    /\ evaluating = 0
    /\ shutdown_requested = FALSE
    /\ now = 0
    /\ last = NoOp
    /\ reading = None
    /\ twin = FreshTwin
    /\ price = None
    /\ gap = NoGap
    /\ closed = NoneClosed
    /\ handles = NoHandles
    /\ config_entries = NoEntries
    /\ hass_data = None
    /\ result = NoResult

SpecReminder == InitReminder /\ [][Next]_vars

\* ------------------------------------------------ registering and removing

\* list.remove(x): the list without its first entry equal to x; the caller
\* has checked that there is one
Remove(list, x) ==
    LET i == CHOOSE k \in 1 .. Len(list) :
                 list[k] = x /\ \A j \in 1 .. (k - 1) : list[j] # x
    IN  SubSeq(list, 1, i - 1) \o SubSeq(list, i + 1, Len(list))

\* x in list
In(x, list) == \E k \in 1 .. Len(list) : list[k] = x

\* coordinator.py:472-475, with the handle it returns: an entity registers
\* its callback and keeps the handle (binary_sensor.py:158-163)
AsyncAddListenerHandle ==
    \E update_callback \in ListenerCallbacks :
        /\ LoopFree
        /\ Len(listeners) < MaxListeners
        /\ handles[update_callback] < MaxListeners
        /\ listeners' = Append(listeners, update_callback)
        /\ handles' = [handles EXCEPT ![update_callback] = @ + 1]
        /\ last' = [NoOp EXCEPT !.op = "add_listener",
                                !.callback = Some(update_callback)]
        /\ UNCHANGED <<config, twin, price, gap, closed, host, state, initialized,
                       unsubscribe, setup, tasks, shutdown_requested, now>>

\* coordinator.py:477-480, called by an entity that is being removed
\* (sensor.py:359-361 and the like)
AsyncRemoveListener ==
    \E update_callback \in ListenerCallbacks :
        /\ LoopFree
        /\ listeners' = IF In(update_callback, listeners)
                        THEN Remove(listeners, update_callback)
                        ELSE listeners
        /\ last' = [NoOp EXCEPT !.op = "remove_listener",
                                !.callback = Some(update_callback)]
        /\ UNCHANGED <<config, shadow, host, state, initialized, unsubscribe, setup,
                       tasks, shutdown_requested, now>>

\* coordinator.py:475, the handle is invoked (once, by the entity's
\* on-remove hook): self._listeners.remove(update_callback), which raises
\* ValueError when the list holds no such entry
InvokeHandle ==
    \E update_callback \in ListenerCallbacks :
        /\ LoopFree
        /\ handles[update_callback] > 0
        /\ handles' = [handles EXCEPT ![update_callback] = @ - 1]
        /\ IF In(update_callback, listeners)
           THEN /\ listeners' = Remove(listeners, update_callback)
                /\ last' = [NoOp EXCEPT !.op = "remove_handle",
                                        !.callback = Some(update_callback)]
           ELSE /\ listeners' = listeners
                /\ last' = [NoOp EXCEPT !.op = "remove_handle",
                                        !.callback = Some(update_callback),
                                        !.raised = Some("ValueError"),
                                        !.escaped = Some("ValueError")]
        /\ UNCHANGED <<config, twin, price, gap, closed, host, state, initialized,
                       unsubscribe, setup, tasks, shutdown_requested, now>>

NextListeners ==
    \/ AsyncAddListenerHandle
    \/ AsyncRemoveListener
    \/ InvokeHandle
    \/ AsyncShutdown

SpecListeners == InitLifecycle /\ [][NextListeners]_vars

\* ------------------------------------------------------------------ claims

IsTick(op) == op \in {"valid", "missing", "text"}

\* The classifier of the specification (section 4.1)
Classify(power, previously_running, start, stop) ==
    IF previously_running THEN power > stop ELSE power > start

\* The running states the code's classifier yields for a sequence of
\* readings, starting from the running state was
RECURSIVE RunningStates(_, _, _, _)
RunningStates(readings, was, start, stop) ==
    IF readings = <<>> THEN <<>>
    ELSE LET r == IsOn(Head(readings), was, start, stop)
         IN  <<r>> \o RunningStates(Tail(readings), r, start, stop)

\* C1: with stop_watts <= start_watts, the is_running value published after
\* a valid reading is classify(power, previously_running): an idle appliance
\* starts iff power > start_watts, a running one stays running iff
\* power > stop_watts; with equal thresholds the result is power > threshold
\* whatever the previous state; and start=100, stop=50 with the readings
\* [0,120,70,120,40] gives [false,true,true,true,false].
C1_Hysteresis ==
    [][ /\ (last'.op = "valid" /\ stop_watts <= start_watts) =>
            /\ data' # None
            /\ data'[1].is_running =
                   Classify(data'[1].power_state, was_on, start_watts, stop_watts)
            /\ was_on' = data'[1].is_running
            /\ (start_watts = stop_watts =>
                   data'[1].is_running = (data'[1].power_state > start_watts))
        /\ RunningStates(<<0, 120, 70, 120, 40>>, FALSE, 100, 50)
               = <<FALSE, TRUE, TRUE, TRUE, FALSE>>
      ]_vars

\* C1 witness: a reading inside the hysteresis band (above stop_watts, not
\* above start_watts) was evaluated while running and the appliance stays
\* running.
C1_Witness ==
    /\ last.op = "valid" /\ last.was /\ was_on
    /\ stop_watts < start_watts
    /\ last_power > stop_watts /\ last_power <= start_watts
    /\ data # None /\ data[1].is_running

\* C2: use_count starts at 0, grows by exactly 1 on an update tick that
\* takes the appliance from running to not running, and is unchanged by
\* every other update tick (valid, unavailable or unparseable reading).
C2_UseCount ==
    /\ use_count = 0
    /\ [][ IsTick(last'.op) =>
             IF last'.op = "valid" /\ was_on /\ ~was_on'
             THEN use_count' = use_count + 1 /\ data'[1].use_count = use_count'
             ELSE use_count' = use_count
         ]_vars

\* C2 witness: one cycle was completed and counted.
C2_Witness ==
    last.op = "valid" /\ last.was /\ ~was_on /\ use_count = 1

\* C3: on an Idle->Active tick start_time becomes the tick time, end_time is
\* cleared and cycle_energy and cycle_cost restart from zero, so that they
\* hold this tick's interval alone and nothing of what they held before; on
\* every other update tick they keep what they held (plus that tick's
\* interval when it is accumulated).
C3_CycleReset ==
    [][ IsTick(last'.op) =>
          IF last'.op = "valid" /\ ~was_on /\ was_on'
          THEN /\ start_time' = Some(now')
               /\ end_time' = None
               /\ cycle_energy' = last'.interval_energy
               /\ cycle_cost' = last'.interval_cost
          ELSE /\ cycle_energy' \in {cycle_energy, cycle_energy + last'.interval_energy}
               /\ cycle_cost' \in {cycle_cost, cycle_cost + last'.interval_cost}
      ]_vars

\* C3 witness: a second cycle has just started after a first one that used
\* energy, and the cycle accumulators hold nothing of the first.
C3_Witness ==
    /\ last.op = "valid" /\ ~last.was /\ was_on
    /\ use_count = 1 /\ previous_cycle_energy # 0 /\ total_energy # 0
    /\ cycle_energy = 0 /\ cycle_cost = 0
    /\ start_time = Some(now) /\ end_time = None

\* C4: on an Active->Idle tick, under a non-decreasing clock and also when
\* ticks share a timestamp, end_time becomes the tick time,
\* last_cycle_duration becomes end_time - start_time of the cycle that
\* ended, and total_duration grows by exactly that duration.  (Stated for
\* stop_watts < start_watts and readings and energies that are not negative.)
C4_CycleDuration ==
    [][ (/\ last'.op = "valid" /\ was_on /\ ~was_on'
         /\ stop_watts < start_watts
         /\ last_power >= 0 /\ last_power' >= 0 /\ total_energy >= 0) =>
          /\ end_time' = Some(now')
          /\ last_cycle_duration' = Some(now' - start_time[1])
          /\ total_duration' = total_duration + (now' - start_time[1])
      ]_vars

\* C5: in the Snapshot published on an Active->Idle tick,
\* previous_cycle_energy = cycle_energy and previous_cycle_cost = cycle_cost
\* (the whole completed cycle, its final partial interval included).
\* (Stated for stop_watts < start_watts and a final reading and energies
\* that are not negative.)
C5_PreviousCycleIsWholeCycle ==
    (/\ last.op = "valid" /\ last.was /\ ~was_on
     /\ stop_watts < start_watts
     /\ last_power >= 0 /\ total_energy >= 0 /\ previous_cycle_energy >= 0) =>
        /\ data # None
        /\ data[1].previous_cycle_energy = data[1].cycle_energy
        /\ data[1].previous_cycle_cost = data[1].cycle_cost

\* C6: previous_cycle_energy, previous_cycle_cost and last_cycle_duration
\* change on an Active->Idle tick only; every other update tick leaves them
\* as they were, in the coordinator and in the Snapshot it publishes.
C6_PreviousCycleFrame ==
    [][ (IsTick(last'.op) /\ ~(last'.op = "valid" /\ was_on /\ ~was_on')) =>
          /\ UNCHANGED <<previous_cycle_energy, previous_cycle_cost, last_cycle_duration>>
          /\ data' # None =>
               /\ data'[1].previous_cycle_energy = previous_cycle_energy
               /\ data'[1].previous_cycle_cost = previous_cycle_cost
               /\ data'[1].last_cycle_duration = last_cycle_duration
      ]_vars

\* C6 witness: a new cycle has started and the values of the completed
\* cycle (energy used, one second long) are still in place.
C6_Witness ==
    /\ last.op = "valid" /\ ~last.was /\ was_on
    /\ use_count = 1 /\ previous_cycle_energy # 0 /\ last_cycle_duration = Some(1)
    /\ data # None /\ data[1].previous_cycle_energy = previous_cycle_energy

\* C7: on a valid reading after the first, the interval energy in kWh is
\* (prior_power + current_power) * elapsed_hours / 2 / 1000, prior_power and
\* the left time edge being those of the previous valid reading; two
\* readings of the same power P taken T hours apart give P*T/1000 kWh.
\* (An energy e stands for e / KWhScale kWh and elapsed_hours is the elapsed
\* seconds over 3600, so one watt during one second is UnitsPerWattSecond
\* units; the first equation is written with its division by 2 multiplied
\* out.)
UnitsPerWattSecond == KWhScale \div (SecondsPerHour * WattsPerKilowatt)

C7_Trapezoid ==
    [][ (last'.op = "valid" /\ reading # None) =>
          LET prior_power == reading[1][1]
              elapsed_seconds == reading'[1][2] - reading[1][2]
              current_power == reading'[1][1]
          IN  /\ last'.interval_energy * 2
                     = (prior_power + current_power) * elapsed_seconds
                           * UnitsPerWattSecond
              /\ prior_power = current_power =>
                     last'.interval_energy
                         = current_power * elapsed_seconds * UnitsPerWattSecond
      ]_vars

\* C7 witness: a later valid reading integrated a non-zero interval energy.
C7_Witness ==
    last.op = "valid" /\ ~last.first /\ last.interval_energy # 0 /\ now > 0

\* C8: on the first valid reading after construction or shutdown the
\* integrator returns 0 and records the reading and its time as baseline,
\* and no energy or cost accumulator changes, even when the reading is
\* above start_watts and starts a cycle.
C8_FirstReading ==
    [][ (last'.op = "valid" /\ reading = None) =>
          /\ last'.interval_energy = 0
          /\ last'.interval_cost = 0
          /\ last_power' = reading'[1][1]
          /\ last_power_time' = Some(reading'[1][2])
          /\ UNCHANGED <<energy, cost>>
      ]_vars

\* C8 witness: the first valid reading came after time 0, was above
\* start_watts and started a cycle, with nothing accumulated.
C8_Witness ==
    /\ last.op = "valid" /\ last.first /\ was_on /\ last_power > start_watts
    /\ now > 0 /\ last_power_time = Some(now) /\ start_time = Some(now)
    /\ total_energy = 0 /\ total_cost = 0

\* C9: under a non-decreasing clock, whatever the power source and the
\* price source deliver (negative readings included), total_energy and
\* total_cost of each published Snapshot are >= those of the previous one.
\* (Stated for stop_watts < start_watts.)
C9_TotalsMonotonic ==
    [][ (IsTick(last'.op) /\ data # None /\ data' # None
            /\ stop_watts < start_watts) =>
          /\ data'[1].total_energy >= data[1].total_energy
          /\ data'[1].total_cost >= data[1].total_cost
      ]_vars

\* C10: in every published Snapshot the three energies and the three costs
\* are >= 0, whatever the power source and the price source deliver.
\* (Stated for stop_watts < start_watts.)
C10_NonNegative ==
    (data # None /\ stop_watts < start_watts) =>
        /\ data[1].cycle_energy >= 0
        /\ data[1].previous_cycle_energy >= 0
        /\ data[1].total_energy >= 0
        /\ data[1].cycle_cost >= 0
        /\ data[1].previous_cycle_cost >= 0
        /\ data[1].total_cost >= 0

\* The service status of the specification (section 4.5)
ServiceStatus(enabled, count, reminder_count) ==
    IF ~enabled THEN "disabled"
    ELSE IF count >= reminder_count THEN "needs_service"
    ELSE "ok"

\* C11: in every published Snapshot service_status is "disabled" when
\* reminders are not enabled, otherwise "needs_service" when use_count >=
\* service_reminder_count and "ok" when use_count < service_reminder_count,
\* whether or not the appliance is running.
\* (Stated for stop_watts < start_watts.)
C11_ServiceStatus ==
    (data # None /\ stop_watts < start_watts) =>
        data[1].service_status =
            ServiceStatus(data[1].service_reminder_enabled, data[1].use_count,
                          data[1].service_reminder_count)

NoReadingOp(op) == op \in {"missing", "text"}

\* C12: an update tick on which the power entity is missing or its state is
\* not a number, taken when a Snapshot was already published, leaves the
\* published Snapshot equal to the one before the tick and leaves every
\* accumulator (use_count, energies, costs, durations, start and end time,
\* was_on, last_power, last_power_time) unchanged.
C12_NoReadingKeepsState ==
    [][ (NoReadingOp(last'.op) /\ data # None) =>
          /\ data' = data
          /\ UNCHANGED <<cycle, energy, cost, baseline>>
      ]_vars

\* C12 witness: the power source failed in the middle of a cycle that has
\* used energy, and the Snapshot of the last valid reading is still the
\* published one.
C12_Witness ==
    /\ NoReadingOp(last.op) /\ was_on /\ cycle_energy # 0
    /\ data # None /\ data[1].is_running /\ data[1].cycle_energy = cycle_energy

\* C13: a tick on which the power entity is missing publishes nothing in
\* place of the missing reading, also when it is the first tick and no
\* Snapshot exists yet: no Snapshot reporting power 0 and is_running = false
\* appears.  (Stated for stop_watts < start_watts.)
C13_UnavailableIsSkipped ==
    [][ (last'.op = "missing" /\ stop_watts < start_watts) =>
          (data' = data \/ ~(data'[1].power_state = 0 /\ ~data'[1].is_running))
      ]_vars

\* C14: every tick on which the power entity is missing or its state is not
\* a number ends as a failed update (last_update_success is false), and the
\* last good Snapshot stays in place.
\* (Stated for stop_watts < start_watts and ticks taken after a valid
\* reading was evaluated and its Snapshot published.)
C14_NoReadingIsFailedUpdate ==
    [][ (/\ NoReadingOp(last'.op) /\ data # None /\ reading # None
         /\ stop_watts < start_watts) =>
          /\ ~last_update_success'
          /\ data' = data
      ]_vars

\* C15: at most one evaluation is in progress at any time, whichever of
\* the polling timer, the power-sensor change events and the refresh call
\* of async_setup start them: an evaluation that has started finishes
\* before any other operation acts, so no second one starts before it.
C15_OneEvaluationAtATime ==
    [][ /\ InProgress <= 1
        /\ InProgress' <= 1
        /\ InProgress = 1 => InProgress' = 0
      ]_vars

\* C15 witness: an evaluation is in progress while two refresh tasks
\* created by power-sensor changes and the retry of async_setup wait.
C15_Witness ==
    evaluating = 1 /\ pending >= 2 /\ setup_pc = "retry_delay"

\* C16: triggers that arrive while a refresh is in flight (created and not
\* finished) are coalesced into one follow-up: behind the refresh in flight
\* at most one more evaluation waits to run, however many triggers arrived.
C16_TriggersCoalesced ==
    pending + InProgress <= 2

\* C18: async_setup makes at most 3 refresh attempts, whether the refresh
\* call raises, returns after a Snapshot was stored, or returns without
\* raising while data is still None.
C18_SetupAttemptsBounded ==
    attempts <= MaxRetries

\* The state of a coordinator that was just constructed (coordinator.py:
\* 105-127, as in Init)
FreshlyConstructed ==
    /\ ~was_on /\ use_count = 0
    /\ cycle_energy = 0 /\ previous_cycle_energy = 0 /\ total_energy = 0
    /\ cycle_cost = 0 /\ previous_cycle_cost = 0 /\ total_cost = 0
    /\ last_cycle_duration = None /\ total_duration = 0
    /\ start_time = None /\ end_time = None /\ last_cycle_end_time = None
    /\ last_power = 0 /\ last_power_time = None
    /\ data = None
    /\ listeners = <<>>
    /\ ~unsubscribe
    /\ ~initialized

\* C19: when async_shutdown has run, the coordinator is in its freshly
\* constructed state (Idle, use_count and all energy, cost and duration
\* accumulators zero, timestamps and integration baseline unset, no
\* Snapshot, no listeners, no subscription, not initialised), and an
\* async_shutdown that follows another leaves that state unchanged.
C19_ShutdownRestoresInitialState ==
    [][ last'.op = "shutdown" =>
          /\ FreshlyConstructed'
          /\ last.op = "shutdown" =>
                UNCHANGED <<cycle, energy, cost, baseline, hooks, data>>
      ]_vars

\* C19 witness: the coordinator was shut down after async_setup had
\* returned and while the appliance was running.
C19_Witness ==
    last.op = "shutdown" /\ last.was /\ setup_pc = "done" /\ now > 0

\* C20: once async_shutdown has completed, no Snapshot is published, no
\* accumulator is modified and no power-source subscription is created,
\* whatever was pending at the shutdown: a refresh task created by a
\* power-sensor change, a timer tick, or an async_setup suspended in one of
\* its delays.
C20_NothingAfterShutdown ==
    [][ shutdown_requested =>
          /\ data' = data
          /\ UNCHANGED <<cycle, energy, cost, baseline>>
          /\ unsubscribe' => unsubscribe
      ]_vars

\* const.py:28, the default debounce time in seconds
DEFAULT_DEBOUNCE == 5

\* C21: a change of running state is confirmed only when the opposite
\* condition has held for the debounce time: a reading that crosses the
\* threshold right after a reading that did not (so that the condition has
\* held for 0 seconds, less than the debounce time) leaves is_running,
\* start_time, end_time and use_count as they were.
\* (Stated for stop_watts < start_watts and the default debounce time.)
C21_Debounce ==
    [][ (/\ last'.op = "valid" /\ reading # None
         /\ stop_watts < start_watts
         /\ 0 < DEFAULT_DEBOUNCE
         /\ IF was_on THEN reading[1][1] > stop_watts
                      ELSE reading[1][1] <= start_watts) =>
          /\ UNCHANGED <<was_on, start_time, end_time, use_count>>
          /\ data'[1].is_running = was_on
      ]_vars

\* C22: when no reading exceeds start_watts (readings equal to it and ticks
\* without a reading included), the appliance is never running and no cycle
\* is counted: is_running is false in every published Snapshot and
\* use_count stays 0, in the coordinator and in the Snapshot.
C22_NeverStarts ==
    /\ ~was_on
    /\ use_count = 0
    /\ start_time = None
    /\ data # None => (~data[1].is_running /\ data[1].use_count = 0)

\* C22 witness: a reading equal to start_watts was evaluated after an
\* earlier reading, and a Snapshot is published.
C22_Witness ==
    /\ last.op = "valid" /\ ~last.first /\ last_power = start_watts
    /\ now > 0 /\ data # None /\ data[1].power_state = start_watts

\* The energies of the coordinator and those of a record of fields
Energies == <<cycle_energy, previous_cycle_energy, total_energy>>
EnergiesOf(s) == <<s.cycle_energy, s.previous_cycle_energy, s.total_energy>>

\* The cycle state and integration baseline of the coordinator and those of
\* a record of fields
CycleState ==
    <<start_time, end_time, use_count, was_on, last_cycle_end_time,
      last_cycle_duration, total_duration, last_power, last_power_time>>
CycleStateOf(s) ==
    <<s.start_time, s.end_time, s.use_count, s.was_on, s.last_cycle_end_time,
      s.last_cycle_duration, s.total_duration, s.last_power, s.last_power_time>>

\* C23: without a cost sensor, cycle_cost, previous_cycle_cost and
\* total_cost are 0 in the coordinator and in every published Snapshot, and
\* the three energies, in the coordinator and in the Snapshot, are those of
\* the coordinator that has a price source and is fed the same readings.
C23_NoPriceSource ==
    ~cost_sensor =>
        /\ cycle_cost = 0 /\ previous_cycle_cost = 0 /\ total_cost = 0
        /\ Energies = EnergiesOf(twin)
        /\ data # None =>
             /\ data[1].cycle_cost = 0
             /\ data[1].previous_cycle_cost = 0
             /\ data[1].total_cost = 0
             /\ EnergiesOf(data[1]) = EnergiesOf(twin)

\* C23 witness: without a cost sensor one cycle was completed and a second
\* has used energy, while the coordinator with a price source has accrued
\* cost in both.
C23_Witness ==
    /\ ~cost_sensor /\ data # None /\ last.op = "valid"
    /\ use_count = 1 /\ previous_cycle_energy # 0 /\ cycle_energy # 0
    /\ twin.previous_cycle_cost # 0 /\ twin.cycle_cost # 0

\* Whether the evaluation of this step found a cost sensor configured and
\* its entity missing or not a number
NoRateStep ==
    /\ last'.op = "valid"
    /\ cost_sensor
    /\ price' \in {Some(Missing), Some(Text)}

\* C24 as stated: on a tick where the price entity is configured but
\* missing or not a number, the incremental cost is 0, cycle_cost and
\* total_cost are unchanged, energies and cycle state are updated exactly as
\* by the coordinator that got a valid rate, and the update succeeds.
C24_NoRateUnchanged ==
    [][ NoRateStep =>
          /\ last'.interval_cost = 0
          /\ cycle_cost' = cycle_cost
          /\ total_cost' = total_cost
          /\ Energies' = EnergiesOf(twin')
          /\ CycleState' = CycleStateOf(twin')
          /\ last_update_success' /\ data' # None /\ data'[1].last_update = now'
      ]_vars

\* C24 amended: on a tick where the price entity is configured but missing
\* or not a number, the incremental cost is 0, total_cost is unchanged and
\* cycle_cost is unchanged except on an Idle->Active tick, which resets it
\* to 0; energies and cycle state are updated exactly as by the coordinator
\* that got a valid rate, and the update succeeds.
C24_NoRate ==
    [][ NoRateStep =>
          /\ last'.interval_cost = 0
          /\ cycle_cost' = IF ~was_on /\ was_on' THEN 0 ELSE cycle_cost
          /\ total_cost' = total_cost
          /\ Energies' = EnergiesOf(twin')
          /\ CycleState' = CycleStateOf(twin')
          /\ last_update_success' /\ data' # None /\ data'[1].last_update = now'
      ]_vars

\* C24 witness: cost was accrued, then an interval that used energy was
\* evaluated with the price entity missing or not a number: the energy was
\* accumulated and the cost is that of before, less than the cost of the
\* coordinator that got a valid rate.
C24_Witness ==
    /\ last.op = "valid" /\ cost_sensor /\ price \in {Some(Missing), Some(Text)}
    /\ last.was /\ was_on /\ last.interval_energy # 0
    /\ total_cost # 0 /\ total_cost < twin.total_cost
    /\ total_energy = twin.total_energy

\* C25: on every tick on which energy is accumulated and the price entity
\* reads a number r, cycle_cost and total_cost each grow by exactly
\* interval_energy * r, r being the rate sampled on that tick.
\* (Stated for ticks whose interval energy is not 0.)
C25_CostAccrual ==
    [][ (/\ last'.op = "valid"
         /\ (was_on \/ was_on')
         /\ last'.interval_energy # 0
         /\ cost_sensor /\ price' # None /\ price'[1].kind = "num") =>
          /\ cycle_cost' = cycle_cost + last'.interval_energy * price'[1].val
          /\ total_cost' = total_cost + last'.interval_energy * price'[1].val
      ]_vars

\* C26: async_setup_entry on an entry without a power sensor returns
\* False, constructs no coordinator, adds nothing to hass.data[DOMAIN] and
\* starts no subscription or schedule: the registry and the coordinators in
\* it are as before the call.
C26_NoPowerSensor ==
    [][ (/\ result'.op = "setup_entry"
         /\ ~config_entries[result'.entry_id].data.power_sensor) =>
          /\ result'.returned = "False"
          /\ ~result'.created
          /\ hass_data' = hass_data
      ]_vars

\* C26 witness: the set-up of an entry without a power sensor returned
\* False while the coordinator of another entry is registered, and the
\* entry has no coordinator.
C26_Witness ==
    /\ result.op = "setup_entry" /\ result.returned = "False"
    /\ ~config_entries[result.entry_id].data.power_sensor
    /\ Registered # {} /\ result.entry_id \notin Registered

\* C27: start_watts < stop_watts is detected at set-up: async_setup_entry
\* on an entry with a power sensor and start_watts < stop_watts reports a
\* failure (does not return True), constructs no coordinator and registers
\* none.
C27_ThresholdOrderAtSetup ==
    [][ (/\ result'.op = "setup_entry"
         /\ config_entries[result'.entry_id].data.power_sensor
         /\ config_entries[result'.entry_id].data.start_watts
                < config_entries[result'.entry_id].data.stop_watts) =>
          /\ result'.returned # "True"
          /\ ~result'.created
          /\ hass_data' = hass_data
      ]_vars

FlowStep(op) == op \in {"step_user", "step_reconfigure"}

C29_OnlyActiveIntervals ==
    [][ (last'.op = "valid" /\ ~was_on) =>
          /\ total_energy' = total_energy
          /\ total_cost' = total_cost
          /\ cycle_energy' = IF was_on' THEN 0 ELSE cycle_energy
          /\ cycle_cost' = IF was_on' THEN 0 ELSE cycle_cost
      ]_vars

IsEvaluation(op) == IsTick(op) \/ op = "raised"

\* C30: nothing but UpdateFailed leaves an evaluation: whatever exception
\* is raised while the power state is read or parsed or while the cycle
\* state is updated (the UpdateFailed of an unparseable first reading
\* included), UpdateFailed is what escapes; and the failing evaluation ends
\* in the tick in which it began, with no retry scheduled and no delay
\* entered: the update is recorded as failed, the Snapshot is the one of
\* before and no evaluation is left in progress or pending.
C30_OnlyUpdateFailedEscapes ==
    [][ IsEvaluation(last'.op) =>
          /\ last'.escaped \in {None, Some("UpdateFailed")}
          /\ last'.raised # None =>
               /\ last'.escaped = Some("UpdateFailed")
               /\ ~last_update_success'
               /\ data' = data
               /\ InProgress' = 0
               /\ UNCHANGED <<setup, tasks>>
      ]_vars

\* C30 witness: in the middle of a cycle, with a Snapshot published, an
\* evaluation raised a KeyError and UpdateFailed left it.
C30_Witness ==
    /\ last.op = "raised" /\ last.raised = Some("KeyError")
    /\ last.escaped = Some("UpdateFailed")
    /\ was_on /\ data # None /\ ~last_update_success

\* C31: a tick on which the power entity is missing or its state is not a
\* number leaves the integration baseline (last_power, last_power_time)
\* where the last valid reading put it; the first valid reading after such
\* ticks integrates the trapezoid of the last valid reading and the new one
\* over the whole time since the last valid reading, and when the appliance
\* was running before the gap that energy is added to cycle_energy and to
\* total_energy.
C31_GapIsIntegrated ==
    [][ /\ (NoReadingOp(last'.op) /\ reading # None) =>
               /\ last_power' = reading[1][1]
               /\ last_power_time' = Some(reading[1][2])
        /\ (last'.op = "valid" /\ gap.open /\ reading # None) =>
               LET elapsed_seconds == now' - reading[1][2]
                   doubled == (reading[1][1] + last_power') * elapsed_seconds
                                  * UnitsPerWattSecond
               IN  /\ last'.interval_energy * 2 = doubled
                   /\ was_on =>
                          /\ cycle_energy' * 2 = cycle_energy * 2 + doubled
                          /\ total_energy' * 2 = total_energy * 2 + doubled
      ]_vars

\* C31 witness: a cycle was running at 120 W, a tick without a reading came
\* one second later and the next reading a second after that, and the
\* energy of the two seconds is in cycle_energy.
C31_Witness ==
    /\ last.op = "valid" /\ gap.closed /\ last.was /\ ~last.first
    /\ reading # None /\ reading[1][1] = 120 /\ now = 2
    /\ last.interval_energy * 2 = (120 + 120) * 2 * UnitsPerWattSecond
    /\ cycle_energy >= last.interval_energy /\ cycle_energy > 0

\* C32: in every published Snapshot, under a clock that does not go
\* backwards: is_running implies that start_time is set and end_time is
\* null; end_time set implies that is_running is false, that start_time is
\* set and that start_time <= end_time; use_count > 0 implies that
\* start_time is set.
C32_SnapshotTimes ==
    data # None =>
        LET d == data[1]
        IN  /\ d.is_running => (d.start_time # None /\ d.end_time = None)
            /\ d.end_time # None =>
                   /\ ~d.is_running
                   /\ d.start_time # None
                   /\ d.start_time[1] <= d.end_time[1]
            /\ d.use_count > 0 => d.start_time # None

\* C32 witness: a second cycle is running after a first one that ended, and
\* its Snapshot has a start time, no end time and a positive use_count.
C32_Witness ==
    /\ data # None /\ last.op = "valid"
    /\ data[1].is_running /\ data[1].use_count > 0
    /\ data[1].start_time = Some(now) /\ now > 0 /\ data[1].end_time = None

\* C33: in every Snapshot with is_running = true, cycle_duration equals
\* last_update - start_time of that same Snapshot, so that it is 0 on the
\* tick that starts a cycle, the first or a later one; in every Snapshot
\* built from a valid reading with is_running = false, cycle_duration is
\* null.  (Stated for stop_watts < start_watts.)
C33_CycleDurationOfSnapshot ==
    (data # None /\ stop_watts < start_watts) =>
        LET d == data[1]
        IN  /\ d.is_running =>
                   /\ d.start_time # None
                   /\ d.cycle_duration = Some(d.last_update - d.start_time[1])
            /\ (~d.is_running /\ d.last_power_time # None) =>
                   d.cycle_duration = None

\* C34: after any sequence of update ticks total_energy is the sum, over
\* the cycles started so far, of each cycle's cycle_energy (its final value
\* for a completed cycle, its current value for the cycle in progress), and
\* total_cost is the same sum of cycle_cost: each tick adds the same amount
\* to the per-cycle accumulator and to the lifetime one.
C34_TotalsAreCycleSums ==
    /\ total_energy = closed.energy + cycle_energy
    /\ total_cost = closed.cost + cycle_cost

\* C34 witness: a second cycle is in progress after a first one that used
\* energy and cost, and both have accumulated.
C34_Witness ==
    /\ was_on /\ use_count > 0
    /\ closed.energy > 0 /\ closed.cost > 0
    /\ cycle_energy > 0 /\ cycle_cost > 0
    /\ total_energy > cycle_energy /\ total_cost > cycle_cost

\* C35: in every published Snapshot remaining_cycles is
\* max(0, service_reminder_count - use_count): with a fixed configuration
\* it is never negative, it is 0 exactly when use_count >=
\* service_reminder_count, and it never increases from one Snapshot to the
\* next.
C35_RemainingCycles ==
    /\ [](data # None =>
            LET d == data[1]
                left == d.service_reminder_count - d.use_count
            IN  /\ d.service_reminder_count = service_reminder_count
                /\ d.remaining_cycles = IF left > 0 THEN left ELSE 0
                /\ d.remaining_cycles >= 0
                /\ (d.remaining_cycles = 0) <=>
                       (d.use_count >= d.service_reminder_count))
    /\ [][ (data # None /\ data' # None) =>
               data'[1].remaining_cycles <= data[1].remaining_cycles ]_vars

\* C35 witness: more cycles were completed than the reminder count, and the
\* Snapshot reports no remaining cycle.
C35_Witness ==
    /\ data # None /\ service_reminder_count > 0
    /\ data[1].use_count > data[1].service_reminder_count
    /\ data[1].remaining_cycles = 0

\* The entries of a list of listeners other than those of callback c, in
\* their order
Others(list, c) == SelectSeq(list, LAMBDA x : x # c)

\* C36: unregistering a listener never fails and never removes another
\* listener: async_remove_listener and the handle returned by
\* async_add_listener leave all other registrations intact, and are no-ops
\* when the callback is no longer registered, in particular after
\* async_shutdown has cleared the listener list.
C36_UnregisterNeverFails ==
    [][ last'.op \in {"remove_listener", "remove_handle"} =>
          LET c == last'.callback[1]
          IN  /\ last'.raised = None
              /\ Others(listeners', c) = Others(listeners, c)
              /\ ~In(c, listeners) => listeners' = listeners
      ]_vars

\* C37: a coordinator holds at most one active power-source subscription
\* at any time: whatever the sequence of async_setup and async_shutdown
\* calls, async_setup called again after an initialisation that exhausted
\* its retries included, no subscription is created while an earlier one is
\* still active, and async_shutdown releases the one that exists.
C37_OneSubscription ==
    [][ /\ SetupSubscribe => ~unsubscribe
        /\ last'.op = "shutdown" => ~unsubscribe'
      ]_vars

\* C38: hass.data[DOMAIN] contains an entry id only while that entry is set
\* up: when async_setup_entry has returned False or raised, no coordinator
\* of that entry is registered or subscribed; when async_unload_entry has
\* returned True the entry id is absent from the registry, and the DOMAIN
\* key is absent once no entry remains.  (An entry whose unload returned
\* False is counted as still set up.)
C38_RegistryHoldsLoadedEntries ==
    /\ \A i \in Registered :
           /\ i \in Stored
           /\ config_entries[i].state \in {"loaded", "failed_unload"}
    /\ (result.op = "setup_entry" /\ result.returned \in {"False", "raised"}) =>
           result.entry_id \notin Registered
    /\ (result.op = "unload_entry" /\ result.returned = "True") =>
           /\ result.entry_id \notin Registered
           /\ Registered = {} => hass_data = None

====
